---- MODULE Spec2Model ----
(***************************************************************************)
(* Verification model of blind-test-trainer: the spaced-repetition update  *)
(* rule (services/srs_service.py), the quiz session and its round state    *)
(* machine (services/quiz_session.py, gui/quiz_view_frame.py) and the      *)
(* analytics replay (data/database_manager.py).                            *)
(***************************************************************************)
EXTENDS Integers, Sequences, FiniteSets, TLC

(***************************************************************************)
(* Python floats (IEEE-754 binary64).                                      *)
(*                                                                         *)
(* Every float the program computes is within a fraction of an ulp of a    *)
(* multiple of 1/10, so a float is kept as the exact rational              *)
(*     t/10 + c / (10 * 2^FracBits)                                        *)
(* with t the decimal anchor in tenths and c the (small, signed) distance  *)
(* of the binary64 value from t/10.  Rounding to the nearest binary64      *)
(* (ties to even) is computed exactly on this representation, so 2.5-0.2,  *)
(* n*ease and base*1.2 have the value CPython computes, including whether  *)
(* a product lands on, below or above a half-integer.                      *)
(***************************************************************************)
MantissaBits == 52
ScaleBits == 3
FracBits == MantissaBits + ScaleBits

MaxBinade == 20

RECURSIVE Pow2Rec(_)
Pow2Rec(k) == IF k = 0 THEN 1 ELSE 2 * Pow2Rec(k - 1)

RECURSIVE Pow2ModRec(_, _)
Pow2ModRec(k, m) == IF k = 0 THEN 1 % m ELSE (2 * Pow2ModRec(k - 1, m)) % m

\* 2^k and 2^k mod 10, 2^k mod 20, tabulated once
Pow2Table == [k \in 0..MaxBinade |-> Pow2Rec(k)]

Pow2Mod10Table == [k \in 0..FracBits |-> Pow2ModRec(k, 10)]

Pow2Mod20Table == [k \in 0..FracBits |-> Pow2ModRec(k, 20)]

Pow2(k) == Pow2Table[k]

Dbl(t, c) == [t |-> t, c |-> c]

\* Biased binary exponent E = floor(log2(value)) + ScaleBits of t/10 + c*U.
RECURSIVE BinadeFrom(_, _)
BinadeFrom(t, E) ==
    IF 10 * Pow2(E + 1) <= t * Pow2(ScaleBits) THEN BinadeFrom(t, E + 1) ELSE E

Binade(t, c) ==
    LET E == BinadeFrom(t, 0)
    IN IF 10 * Pow2(E) = t * Pow2(ScaleBits) /\ c < 0 THEN E - 1 ELSE E

\* Round the exact value t/10 + c*U to the nearest binary64, ties to even.
RoundToDouble(t, c) ==
    IF t = 0 /\ c = 0 THEN Dbl(0, 0)
    ELSE
      LET E    == Binade(t, c)
          G    == 10 * Pow2(E)                  \* one ulp, in units of U
          k    == FracBits - E
          rho  == (Pow2(E) * ((t * Pow2Mod10Table[k]) % 10) + c) % G
          rho2 == (Pow2(E) * ((t * Pow2Mod20Table[k]) % 20) + c) % (2 * G)
          odd  == (rho2 - rho) \div G = 1      \* parity of the lower neighbour
      IN IF 2 * rho < G THEN Dbl(t, c - rho)
         ELSE IF 2 * rho > G THEN Dbl(t, c - rho + G)
         ELSE IF odd THEN Dbl(t, c - rho + G) ELSE Dbl(t, c - rho)

\* A decimal literal such as 2.5, 1.3, 0.2 or 1.2 (t in tenths).
FloatLit(t) == RoundToDouble(t, 0)

\* int * float: the int converts exactly, the product is rounded once.
FloatMul(n, x) == RoundToDouble(n * x.t, n * x.c)

\* float - float
FloatSub(x, y) == RoundToDouble(x.t - y.t, x.c - y.c)

FloatLess(x, y) == x.t < y.t \/ (x.t = y.t /\ x.c < y.c)

FloatLeq(x, y) == ~FloatLess(y, x)

\* max(a, b) of Python: b if b > a else a
FloatMax(a, b) == IF FloatLess(a, b) THEN b ELSE a

\* round(x) of a Python float: nearest integer, exact ties to the even one.
PyRound(x) ==
    LET q == x.t \div 10
        r == x.t % 10
    IN IF r < 5 THEN q
       ELSE IF r > 5 THEN q + 1
       ELSE IF x.c < 0 THEN q
       ELSE IF x.c > 0 THEN q + 1
       ELSE IF q % 2 = 0 THEN q ELSE q + 1

\* float(n) of an int
FloatOfInt(n) == Dbl(10 * n, 0)

(***************************************************************************)
(* State.                                                                  *)
(***************************************************************************)
VARIABLES
    srs_data,   \* a stored scheduling state, the srs_data tuple of the live
                \* rule: [interval, ease, due] (current_interval_days,
                \* ease_factor, next_review_date)
    srs_state,  \* the replay's in-memory state of the same item:
                \* [interval, ease] (srs_states[song_id])
    call,       \* the last outcome applied: its arguments and the two states
                \* it was applied to
    now,        \* the clock, in ticks; datetime('now') and date.today() read it
    songs,      \* song_id column of the songs table
    play_history, \* rows of the play_history table in rowid order:
                \* [song_id, play_timestamp, was_correct, reaction_time]
    ret,        \* what the last data-layer call returned (or that it raised)
    spaced_repetition, \* the spaced_repetition table: song_id -> [interval,
                \* ease, due]
    frame,      \* the frame MainWindow.show_frame raised last
    session,    \* QuizView.session: a QuizSession or None
    current_song,  \* QuizView.current_song: a song_id or None
    round_state,   \* QuizView.round_state
    self_reaction_time, \* QuizView.reaction_time, in hundredths of a second
    gridded,    \* the widgets of center_region that are gridded
    space_bound,   \* whether <space> is bound on the controller
    music_busy, \* pygame.mixer.music.get_busy()
    threads,    \* the position of every live playback thread
    timers,     \* the pending Tk after() callbacks, in the order they are due
    messages,   \* the message boxes the last user-invoked handler showed
    faults      \* the number of writes that have failed

srsVars == <<srs_data, srs_state, call>>

dbVars == <<now, songs, play_history, ret>>

viewVars == <<frame, session, current_song, round_state,
              self_reaction_time, gridded, space_bound, music_busy, threads, timers, messages,
              faults>>

vars == <<srs_data, srs_state, call, now, songs, play_history, ret,
          spaced_repetition, frame, session, current_song, round_state,
          self_reaction_time, gridded, space_bound, music_busy, threads, timers,
          messages, faults>>

(***************************************************************************)
(* Bounds of the model.                                                    *)
(***************************************************************************)
MaxInterval == 25        \* the rule is not applied to intervals above this
MaxStartInterval == 12   \* largest interval of a drawn start state
MinStartEase == 10       \* drawn start ease factors, in tenths: 1.0 ..
MaxStartEase == 26       \* .. 2.6

NumSongs == 2           \* song ids 1..NumSongs
MaxHistory == 3         \* rows of play_history
MaxNow == 2             \* last tick of the clock
TicksPerDay == 2        \* clock ticks per calendar day
MaxWindow == 2          \* largest `days` argument of get_mastery_over_time
MaxThreads == 1         \* playback threads alive at once
MaxTimers == 2          \* pending after() callbacks
MaxFaults == 1          \* failed writes in a run
MaxRounds == 1          \* rows of play_history that quiz rounds append

\* reaction_time values, in hundredths of a second: the timeout sentinel -1,
\* 0.0, a fast answer, exactly 3.0.
ReactionTimes == {-100, 0, 150, 300}

(***************************************************************************)
(* srs_service.py / database_manager.py: the update rule.                  *)
(***************************************************************************)
DefaultInterval == 1
DefaultEase == FloatLit(25)
MinEaseFactor == FloatLit(13)
\* Variant: the ease is lowered by 0.1.
EaseDecrementTenth == FloatLit(1)

EaseDecrement == FloatLit(2)
\* Variant: a fast answer triples the base interval.
SpeedBonusFactorTriple == FloatLit(30)

SpeedBonusFactor == FloatLit(12)
FirstCorrectInterval == 4
SpeedBonusLimit == 300
TimeoutSentinel == -100

\* DATE(play_timestamp), date.fromisoformat(...): the calendar day of a tick
DateOf(timestamp) == timestamp \div TicksPerDay

\* date.today()
Today == DateOf(now)

\* Variant: the bonus test without its lower bound (the timeout sentinel and
\* 0.0 would earn the bonus).
SpeedBonusAppliesNoLowerBound(reaction_time) ==
    reaction_time < SpeedBonusLimit

\* 0 < reaction_time < 3.0
SpeedBonusApplies(reaction_time) ==
    0 < reaction_time /\ reaction_time < SpeedBonusLimit

\* Variant: no special case for the first correct review.
CorrectIntervalNoFirstCase(current_interval_days, ease_factor, reaction_time) ==
    LET base_new_interval ==
            PyRound(FloatMul(current_interval_days, ease_factor))
        interval_with_bonus ==
            IF 0 < reaction_time /\ reaction_time < SpeedBonusLimit
            THEN FloatMul(base_new_interval, SpeedBonusFactor)
            ELSE FloatOfInt(base_new_interval)
    IN PyRound(interval_with_bonus)

\* interval of a correct answer, lines 26-43 of the live rule
CorrectInterval(current_interval_days, ease_factor, reaction_time) ==
    IF current_interval_days = 1
    THEN FirstCorrectInterval
    ELSE LET base_new_interval ==
                 PyRound(FloatMul(current_interval_days, ease_factor))
             interval_with_bonus ==
                 IF SpeedBonusApplies(reaction_time)
                 THEN FloatMul(base_new_interval, SpeedBonusFactor)
                 ELSE FloatOfInt(base_new_interval)
         IN PyRound(interval_with_bonus)

\* Variant: the decrement without the minimum clamp.
WrongEaseNoClamp(ease_factor) ==
    FloatSub(ease_factor, EaseDecrement)

\* max(1.3, ease_factor - 0.2)
WrongEase(ease_factor) ==
    FloatMax(MinEaseFactor, FloatSub(ease_factor, EaseDecrement))

\* Variant: the review date is left at the day of the answer.
calculate_srs_for_correct_answer_due_today(srs, reaction_time) ==
    [interval |-> CorrectInterval(srs.interval, srs.ease, reaction_time),
     ease |-> srs.ease, due |-> Today]

calculate_srs_for_correct_answer(srs, reaction_time) ==
    LET final_new_interval_days ==
            CorrectInterval(srs.interval, srs.ease, reaction_time)
    IN [interval |-> final_new_interval_days,
        ease     |-> srs.ease,
        due      |-> Today + final_new_interval_days]

\* Variant: the interval is not reset.
calculate_srs_for_wrong_answer_keep_interval(srs) ==
    [interval |-> srs.interval, ease |-> WrongEase(srs.ease),
     due |-> Today + srs.interval]

calculate_srs_for_wrong_answer(srs) ==
    [interval |-> 1, ease |-> WrongEase(srs.ease), due |-> Today + 1]

\* update_srs_data_for_song, lines 101-104: the dispatch on was_correct
LiveRule(srs, was_correct, reaction_time) ==
    IF was_correct
    THEN calculate_srs_for_correct_answer(srs, reaction_time)
    ELSE calculate_srs_for_wrong_answer(srs)

\* _recalculate_srs_for_correct_answer, from its own text: 4, round(),
\* 0 < reaction_time < 3.0, * 1.2, float(), round()
recalculate_srs_for_correct_answer(current_interval, ease_factor, reaction_time) ==
    LET new_interval ==
            IF current_interval = 1 THEN 4
            ELSE LET base_new_interval ==
                         PyRound(FloatMul(current_interval, ease_factor))
                     interval_with_bonus ==
                         IF 0 < reaction_time /\ reaction_time < 300
                         THEN FloatMul(base_new_interval, FloatLit(12))
                         ELSE FloatOfInt(base_new_interval)
                 IN PyRound(interval_with_bonus)
    IN <<new_interval, ease_factor>>

\* Variant: the replay clamps the ease at 1.2.
recalculate_srs_for_wrong_answer_floor_12(ease_factor) ==
    <<1, FloatMax(FloatLit(12), FloatSub(ease_factor, FloatLit(2)))>>

\* _recalculate_srs_for_wrong_answer, from its own text: 1, max(1.3, ease - 0.2)
recalculate_srs_for_wrong_answer(ease_factor) ==
    <<1, FloatMax(FloatLit(13), FloatSub(ease_factor, FloatLit(2)))>>

\* get_mastery_over_time, lines 455-463: one event applied to an in-memory state
ReplayRule(state, was_correct, reaction_time) ==
    LET new == IF was_correct
               THEN recalculate_srs_for_correct_answer(
                        state.interval, state.ease, reaction_time)
               ELSE recalculate_srs_for_wrong_answer(state.ease)
    IN [state EXCEPT !.interval = new[1], !.ease = new[2]]

(***************************************************************************)
(* The update rule as a state machine: from a start state, any sequence of *)
(* outcomes, each applied by the live rule to the stored state and by the  *)
(* replay rule to the in-memory state.                                     *)
(***************************************************************************)
NoCall == [was_correct |-> FALSE, reaction_time |-> 0, applied |-> FALSE]

DefaultSrs == [interval |-> DefaultInterval, ease |-> DefaultEase, due |-> Today]

DefaultState == [interval |-> DefaultInterval, ease |-> DefaultEase]

StartStates ==
    {[interval |-> i, ease |-> FloatLit(t), due |-> Today] :
        i \in 1..MaxStartInterval, t \in MinStartEase..MaxStartEase}

NoReturn == [op |-> "none"]

\* QuizView.session = None
NoSession == [mode |-> "None"]

\* None in place of a song (song ids start at 1)
NoSong == 0

\* The data layer before any song is added and any round is played.
DbIdle ==
    /\ now = 0
    /\ songs = {}
    /\ play_history = <<>>
    /\ ret = NoReturn
    /\ spaced_repetition = <<>>

\* QuizView.__init__, with the main menu raised (MainWindow.__init__)
ViewIdle ==
    /\ frame = "MainMenuFrame"
    /\ session = NoSession
    /\ current_song = NoSong
    /\ round_state = "idle"
    /\ self_reaction_time = 0
    /\ gridded = {"play_song_button"}
    /\ space_bound = FALSE
    /\ music_busy = FALSE
    /\ threads = <<>>
    /\ timers = <<>>
    /\ messages = <<>>
    /\ faults = 0

\* The update-rule machine before any outcome is applied.
SrsIdle ==
    /\ srs_data = DefaultSrs
    /\ srs_state = DefaultState
    /\ call = NoCall

InitDefault ==
    /\ DbIdle
    /\ SrsIdle
    /\ ViewIdle

InitAny ==
    /\ DbIdle
    /\ srs_data \in StartStates
    /\ srs_state = [interval |-> srs_data.interval, ease |-> srs_data.ease]
    /\ call = NoCall
    /\ ViewIdle

ApplyOutcome ==
    \E was_correct \in BOOLEAN, reaction_time \in ReactionTimes :
        /\ srs_data.interval <= MaxInterval
        /\ srs_state.interval <= MaxInterval
        /\ srs_data' = LiveRule(srs_data, was_correct, reaction_time)
        /\ srs_state' = ReplayRule(srs_state, was_correct, reaction_time)
        /\ call' = [was_correct |-> was_correct, reaction_time |-> reaction_time,
                    applied |-> TRUE, srs |-> srs_data, state |-> srs_state]
        /\ UNCHANGED dbVars
        /\ UNCHANGED <<spaced_repetition, viewVars>>

NextSrs == ApplyOutcome

SpecSrs == InitDefault /\ [][NextSrs]_vars

SpecSrsAny == InitAny /\ [][NextSrs]_vars

(***************************************************************************)
(* database_manager.py / song_library.py: the tables and the replay.       *)
(***************************************************************************)
MasteredInterval == 30

\* (was_correct, reaction_time) of the recorded plays: correct and fast,
\* correct after a timeout, wrong after a timeout
DbOutcomes == {<<TRUE, 150>>, <<TRUE, TimeoutSentinel>>, <<FALSE, TimeoutSentinel>>}

\* song_library.add_song: the next AUTOINCREMENT song_id
NextSongId ==
    IF songs = {} THEN 1
    ELSE (CHOOSE last \in songs : \A song_id \in songs : song_id <= last) + 1

\* song_library._create_srs_record: the row of a new song, with the table's
\* defaults and next_review_date = date.today()
create_srs_record(song_id) ==
    [id \in DOMAIN spaced_repetition \cup {song_id} |->
        IF id = song_id THEN DefaultSrs ELSE spaced_repetition[id]]

\* record_play_history: INSERT ... VALUES (?, datetime('now'), ?, ?)
record_play_history(song_id, was_correct, reaction_time) ==
    Append(play_history,
           [song_id |-> song_id, play_timestamp |-> now,
            was_correct |-> was_correct, reaction_time |-> reaction_time])

Front(seq) == SubSeq(seq, 1, Len(seq) - 1)

Last(seq) == seq[Len(seq)]

\* ORDER BY play_timestamp: rows of equal timestamp stay in rowid order
RECURSIVE InsertByTimestamp(_, _)
InsertByTimestamp(sorted, row) ==
    IF sorted = <<>> THEN <<row>>
    ELSE IF Last(sorted).play_timestamp <= row.play_timestamp
         THEN Append(sorted, row)
         ELSE Append(InsertByTimestamp(Front(sorted), row), Last(sorted))

RECURSIVE OrderByTimestamp(_)
OrderByTimestamp(rows) ==
    IF rows = <<>> THEN <<>>
    ELSE InsertByTimestamp(OrderByTimestamp(Front(rows)), Last(rows))

\* _get_all_play_history: (song_id, DATE(play_timestamp), was_correct,
\* reaction_time_seconds) of every row, ordered by timestamp
get_all_play_history ==
    LET rows == OrderByTimestamp(play_history)
    IN [i \in 1..Len(rows) |->
            [song_id |-> rows[i].song_id,
             date |-> DateOf(rows[i].play_timestamp),
             was_correct |-> rows[i].was_correct,
             reaction_time |-> rows[i].reaction_time]]

\* _get_all_song_ids
get_all_song_ids == songs

\* Variant: the list is left newest first (no reverse()).
date_range_newest_first(today, days) ==
    [i \in 1..days |-> today - (i - 1)]

\* [today - timedelta(days=i) for i in range(days)], reversed
date_range(today, days) ==
    LET newest_first == [i \in 1..days |-> today - (i - 1)]
    IN [i \in 1..days |-> newest_first[days + 1 - i]]

\* A dict keyed by date (isoformat is one-to-one on dates), in insertion
\* order: a sequence of [date, count] entries with distinct dates.
DictOfZeros(dates) ==
    [i \in 1..Len(dates) |-> [date |-> dates[i], count |-> 0]]

DictSet(dict, key, value) ==
    IF \E i \in 1..Len(dict) : dict[i].date = key
    THEN [i \in 1..Len(dict) |->
            IF dict[i].date = key THEN [dict[i] EXCEPT !.count = value]
            ELSE dict[i]]
    ELSE Append(dict, [date |-> key, count |-> value])

\* Variant: an event is consumed only on a later date than its own.
EventIsDueStrict(event_date, report_date) == event_date < report_date

\* all_history[history_idx][1] <= report_date
EventIsDue(event_date, report_date) == event_date <= report_date

\* lines 451-463: one event applied to the in-memory states
ApplyEvent(srs_states, event) ==
    IF event.song_id \in DOMAIN srs_states
    THEN [srs_states EXCEPT ![event.song_id] =
            ReplayRule(@, event.was_correct, event.reaction_time)]
    ELSE srs_states

\* lines 450-465: the while loop; history_idx counts the consumed events
RECURSIVE ProcessUpTo(_, _, _, _)
ProcessUpTo(all_history, history_idx, srs_states, report_date) ==
    IF /\ history_idx < Len(all_history)
       /\ EventIsDue(all_history[history_idx + 1].date, report_date)
    THEN ProcessUpTo(all_history, history_idx + 1,
                     ApplyEvent(srs_states, all_history[history_idx + 1]),
                     report_date)
    ELSE [history_idx |-> history_idx, srs_states |-> srs_states]

\* lines 468-471
MasteredCount(all_song_ids, srs_states) ==
    Cardinality({song_id \in all_song_ids :
                    srs_states[song_id].interval >= MasteredInterval})

\* lines 448-473: the for loop over date_range, from its k-th date on
RECURSIVE Simulate(_, _, _, _, _, _, _)
Simulate(k, dates, all_history, history_idx, srs_states, all_song_ids, mastery_over_time) ==
    IF k > Len(dates) THEN mastery_over_time
    ELSE LET after == ProcessUpTo(all_history, history_idx, srs_states, dates[k])
         IN Simulate(k + 1, dates, all_history, after.history_idx,
                     after.srs_states, all_song_ids,
                     DictSet(mastery_over_time, dates[k],
                             MasteredCount(all_song_ids, after.srs_states)))

get_mastery_over_time(days) ==
    LET dates == date_range(Today, days)
        mastery_over_time == DictOfZeros(dates)
        all_song_ids == get_all_song_ids
        all_history == get_all_play_history
        srs_states == [song_id \in all_song_ids |-> DefaultState]
    IN IF all_song_ids = {} THEN mastery_over_time
       ELSE Simulate(1, dates, all_history, 0, srs_states, all_song_ids,
                     mastery_over_time)

(***************************************************************************)
(* The data layer as a state machine: songs are added, plays are recorded, *)
(* the clock advances and the mastery series is requested.                 *)
(***************************************************************************)
InitDb ==
    /\ DbIdle
    /\ SrsIdle
    /\ ViewIdle

\* song_library.add_song, from the library management frame
AddSong ==
    /\ frame = "MainMenuFrame"
    /\ NextSongId <= NumSongs
    /\ songs' = songs \cup {NextSongId}
    /\ spaced_repetition' = create_srs_record(NextSongId)
    /\ ret' = [op |-> "add_song", value |-> NextSongId]
    /\ UNCHANGED <<now, play_history>>
    /\ UNCHANGED srsVars
    /\ UNCHANGED viewVars

RecordPlayHistory ==
    \E song_id \in 1..NumSongs, outcome \in DbOutcomes, fails \in BOOLEAN :
        /\ Len(play_history) < MaxHistory
        /\ IF fails
           THEN /\ UNCHANGED play_history
                /\ ret' = [op |-> "record_play_history", raised |-> TRUE]
           ELSE /\ play_history' =
                       record_play_history(song_id, outcome[1], outcome[2])
                /\ ret' = [op |-> "record_play_history", raised |-> FALSE]
        /\ UNCHANGED <<now, songs, spaced_repetition>>
        /\ UNCHANGED srsVars
        /\ UNCHANGED viewVars

Tick ==
    /\ now < MaxNow
    /\ now' = now + 1
    /\ UNCHANGED <<songs, play_history, ret, spaced_repetition>>
    /\ UNCHANGED srsVars
    /\ UNCHANGED viewVars

GetMasteryOverTime ==
    \E days \in 1..MaxWindow :
        /\ ret' = [op |-> "get_mastery_over_time", days |-> days,
                   at |-> now, today |-> Today,
                   value |-> get_mastery_over_time(days)]
        /\ UNCHANGED <<now, songs, play_history, spaced_repetition>>
        /\ UNCHANGED srsVars
        /\ UNCHANGED viewVars

NextDb == AddSong \/ RecordPlayHistory \/ Tick \/ GetMasteryOverTime

SpecDb == InitDb /\ [][NextDb]_vars

(***************************************************************************)
(* services/quiz_session.py: QuizSession.                                  *)
(***************************************************************************)
\* every order a shuffle can leave the ids in
Orderings(ids) ==
    {order \in [1..Cardinality(ids) -> ids] :
        \A i, j \in 1..Cardinality(ids) : i # j => order[i] # order[j]}

\* song_library.get_song_by_id: the row of the song (its id stands for it),
\* None if the songs table has none
get_song_by_id(song_id) == IF song_id \in songs THEN song_id ELSE NoSong

\* QuizSession.__init__ (a non-empty song_ids; the empty list raises)
QuizSession(song_ids, mode) ==
    [song_ids |-> song_ids,
     total_questions |-> Len(song_ids),
     current_question_index |-> 0,
     score |-> 0,
     mode |-> mode,
     failed_songs |-> <<>>]

\* Variant: the session counts as finished one question early.
is_finished_one_early(self) == self.current_question_index >= self.total_questions - 1

is_finished(self) == self.current_question_index >= self.total_questions

\* the song_id of the current question (indices count from 0 in the code)
get_current_song(self) ==
    IF is_finished(self) THEN NoSong
    ELSE get_song_by_id(self.song_ids[self.current_question_index + 1])

\* Variant: next_song without the is_finished test
next_song_unguarded(self) == [self EXCEPT !.current_question_index = @ + 1]

next_song(self) ==
    IF ~is_finished(self)
    THEN [self EXCEPT !.current_question_index = @ + 1]
    ELSE self

record_result(self, was_correct, song_data) ==
    IF was_correct THEN [self EXCEPT !.score = @ + 1]
    ELSE IF self.mode = "Gauntlet" /\ song_data # NoSong
         THEN [self EXCEPT !.failed_songs = Append(@, song_data)]
         ELSE self

(***************************************************************************)
(* services/srs_service.py, data/song_library.py: the stored states.       *)
(***************************************************************************)
\* SELECT song_id FROM spaced_repetition WHERE next_review_date <= today
get_due_songs ==
    {song_id \in DOMAIN spaced_repetition :
        spaced_repetition[song_id].due <= Today}

\* Variant: a song without a row is given one.
update_srs_data_for_song_or_insert(song_id, was_correct, reaction_time) ==
    [id \in DOMAIN spaced_repetition \cup {song_id} |->
        IF id # song_id THEN spaced_repetition[id]
        ELSE LiveRule(IF id \in DOMAIN spaced_repetition
                      THEN spaced_repetition[id] ELSE DefaultSrs,
                      was_correct, reaction_time)]

\* the table after update_srs_data_for_song; a song without a row is
\* reported on stdout and nothing is written
update_srs_data_for_song(song_id, was_correct, reaction_time) ==
    IF song_id \notin DOMAIN spaced_repetition THEN spaced_repetition
    ELSE [spaced_repetition EXCEPT
            ![song_id] = LiveRule(@, was_correct, reaction_time)]

(***************************************************************************)
(* gui/quiz_view_frame.py: QuizView, its timers and its playback threads.  *)
(* A handler runs to completion on the Tk main thread, so it is one step;  *)
(* a playback thread takes a step at each call into the mixer.             *)
(***************************************************************************)
\* CHALLENGE_MODE_SONG_COUNT, the fallback of config.getint
ChallengeSongCount == 20

\* time.time() - self.start_time at a key press, rounded to hundredths:
\* a fast answer and exactly 3.0
Latencies == {150, 300}

Min(a, b) == IF a < b THEN a ELSE b

\* Variant: a sample that may take a song twice
SamplesWithRepeats(ids, num_to_select) == [1..num_to_select -> ids]

\* random.sample(all_song_ids, num_to_select), of any order
Samples(ids, num_to_select) ==
    UNION {Orderings(chosen) :
              chosen \in {c \in SUBSET ids : Cardinality(c) = num_to_select}}

\* show_quiz_results: the title of the box it shows
ResultsTitle(self) ==
    IF self.mode = "Challenge" THEN "Challenge Mode Complete"
    ELSE "Session Complete!"

\* prepare_next_question for the session `self`, after the boxes `shown`;
\* `raised` is the frame on top when a question is left to ask
PrepareNextQuestion(self, shown, raised) ==
    LET song == get_current_song(self)
    IN /\ current_song' = song
       /\ IF song = NoSong
          THEN /\ messages' = Append(shown, ResultsTitle(self))
               /\ frame' = "MainMenuFrame"
               /\ UNCHANGED gridded
          ELSE /\ messages' = shown
               /\ frame' = raised
               /\ gridded' = {"play_song_button"}

\* MainMenuFrame._start_session -> QuizView.start_new_quiz
\* Variant: start_new_quiz without its two early returns
NothingToAskUntested(mode, candidates) == FALSE

\* `if not song_ids_for_quiz` of Standard, `if total_songs == 0` of Challenge
NothingToAsk(mode, candidates) ==
    mode \in {"Standard", "Challenge"} /\ candidates = {}

StartNewQuizWith(mode, song_count_config) ==
    /\ frame = "MainMenuFrame"
    /\ LET candidates == IF mode = "Standard" THEN get_due_songs
                         ELSE IF mode = "Challenge" THEN songs
                         ELSE {}
           num_to_select == Min(song_count_config, Cardinality(candidates))
           lists == IF mode = "Standard" THEN Orderings(candidates)
                    ELSE IF mode = "Challenge"
                         THEN Samples(candidates, num_to_select)
                         ELSE {<<>>}
       IN IF NothingToAsk(mode, candidates)
          THEN /\ session' = NoSession
               /\ messages' = <<IF mode = "Standard" THEN "No Songs Due"
                                ELSE "Empty Library">>
               /\ UNCHANGED <<frame, current_song, gridded>>
          ELSE \E song_ids \in lists :
                  IF song_ids = <<>>
                  THEN \* QuizSession raises ValueError, which leaves
                       \* start_new_quiz and _start_session
                       /\ session' = NoSession
                       /\ messages' = <<"ValueError">>
                       /\ UNCHANGED <<frame, current_song, gridded>>
                  ELSE /\ session' = QuizSession(song_ids, mode)
                       /\ PrepareNextQuestion(session', <<>>, "QuizView")
    /\ UNCHANGED <<round_state, self_reaction_time, space_bound, music_busy,
                   threads, timers, faults>>
    /\ UNCHANGED <<spaced_repetition, dbVars, srsVars>>

\* start_new_quiz with the count of the shipped configuration
StartNewQuiz(mode) == StartNewQuizWith(mode, ChallengeSongCount)

\* quit_session
QuitSession ==
    /\ frame = "QuizView"
    /\ round_state' = "idle"
    /\ music_busy' = FALSE
    /\ space_bound' = FALSE
    /\ frame' = "MainMenuFrame"
    /\ messages' = <<>>
    /\ UNCHANGED <<session, current_song, self_reaction_time, gridded, threads,
                   timers, faults>>
    /\ UNCHANGED <<spaced_repetition, dbVars, srsVars>>

\* the Play Song button is gridded and not covered by the answer frame,
\* which is created after it and fills the same cell
PlayButtonShown ==
    /\ frame = "QuizView"
    /\ "play_song_button" \in gridded
    /\ "answer_reveal_frame" \notin gridded

AnswerButtonsShown ==
    /\ frame = "QuizView"
    /\ "answer_reveal_frame" \in gridded

\* after(100, check_music_status): due after every pending poll, and before
\* or after a reveal that is pending behind them
RECURSIVE PollPositions(_, _)
PollPositions(queue, i) ==
    IF i > Len(queue) THEN {i}
    ELSE IF \E j \in i..Len(queue) : queue[j] = "check_music_status"
         THEN PollPositions(queue, i + 1)
         ELSE {i} \cup PollPositions(queue, i + 1)

InsertAt(queue, i, timer) ==
    SubSeq(queue, 1, i - 1) \o <<timer>> \o SubSeq(queue, i, Len(queue))

AfterPoll(queue) ==
    {InsertAt(queue, i, "check_music_status") : i \in PollPositions(queue, 1)}

\* after(500, show_answer_reveal_state): due after everything pending
AfterReveal(queue) == Append(queue, "show_answer_reveal_state")

\* play_song_and_start_round; `file` is what AudioSegment.from_file finds
PlaySongAndStartRound(file) ==
    /\ PlayButtonShown
    /\ IF file # "ok"
       THEN /\ messages' = <<"Error">>
            /\ UNCHANGED <<gridded, space_bound, round_state, threads, timers>>
       ELSE /\ Len(threads) < MaxThreads
            /\ Len(timers) < MaxTimers
            /\ messages' = <<>>
            /\ gridded' = (gridded \ {"play_song_button"}) \cup {"prompt_label"}
            /\ space_bound' = TRUE
            /\ round_state' = "playing"
            /\ threads' = Append(threads, "load")
            /\ timers' \in AfterPoll(timers)
    /\ UNCHANGED <<frame, session, current_song, self_reaction_time, music_busy,
                   faults>>
    /\ UNCHANGED <<spaced_repetition, dbVars, srsVars>>

\* Variant: the poll never takes the round to have ended.
RoundHasEndedNever == FALSE

\* check_music_status, line 290: self.round_state != "playing"
RoundHasEnded == round_state # "playing"

\* show_answer_reveal_state: the widgets after it
AnswerRevealed == (gridded \ {"prompt_label"}) \cup {"answer_reveal_frame"}

\* the after(100) callback that is due first
CheckMusicStatus ==
    /\ timers # <<>>
    /\ Head(timers) = "check_music_status"
    /\ IF RoundHasEnded
       THEN /\ timers' = Tail(timers)
            /\ UNCHANGED <<round_state, self_reaction_time, space_bound, gridded>>
       ELSE IF ~music_busy
            THEN /\ round_state' = "answering"
                 /\ self_reaction_time' = TimeoutSentinel
                 /\ space_bound' = FALSE
                 /\ gridded' = AnswerRevealed
                 /\ timers' = Tail(timers)
            ELSE /\ timers' \in AfterPoll(Tail(timers))
                 /\ UNCHANGED <<round_state, self_reaction_time, space_bound,
                                gridded>>
    /\ UNCHANGED <<frame, session, current_song, music_busy, threads, messages,
                   faults>>
    /\ UNCHANGED <<spaced_repetition, dbVars, srsVars>>

\* handle_spacebar_press, `elapsed` after the round started; the music that
\* fadeout(500) fades stays busy until MusicEnds
HandleSpacebarPress(elapsed) ==
    /\ space_bound
    /\ IF round_state # "playing"
       THEN UNCHANGED <<round_state, space_bound, self_reaction_time, timers>>
       ELSE /\ Len(timers) < MaxTimers
            /\ round_state' = "answering"
            /\ space_bound' = FALSE
            /\ self_reaction_time' = elapsed
            /\ timers' = AfterReveal(timers)
    /\ UNCHANGED <<frame, session, current_song, gridded, music_busy, threads,
                   messages, faults>>
    /\ UNCHANGED <<spaced_repetition, dbVars, srsVars>>

\* the after(500) callback that is due first
ShowAnswerRevealState ==
    /\ timers # <<>>
    /\ Head(timers) = "show_answer_reveal_state"
    /\ timers' = Tail(timers)
    /\ gridded' = AnswerRevealed
    /\ UNCHANGED <<frame, session, current_song, round_state,
                   self_reaction_time, space_bound, music_busy, threads,
                   messages, faults>>
    /\ UNCHANGED <<spaced_repetition, dbVars, srsVars>>

\* handle_user_response; log_fails and srs_fails say which write raises
HandleUserResponse(was_correct, log_fails, srs_fails) ==
    /\ AnswerButtonsShown
    /\ current_song # NoSong
    /\ faults' = faults + (IF log_fails THEN 1 ELSE 0)
                        + (IF srs_fails THEN 1 ELSE 0)
    /\ faults' <= MaxFaults
    /\ LET song_id == current_song
           shown == IF log_fails THEN <<"Database Error">> ELSE <<>>
           recorded == record_result(session, was_correct, NoSong)
       IN /\ play_history' =
                 IF log_fails THEN play_history
                 ELSE record_play_history(song_id, was_correct,
                                          self_reaction_time)
          /\ IF srs_fails
             THEN /\ session' = recorded
                  /\ messages' = Append(shown, "SRS Error")
                  /\ UNCHANGED <<spaced_repetition, current_song, frame, gridded>>
             ELSE /\ spaced_repetition' =
                         update_srs_data_for_song(song_id, was_correct,
                                                  self_reaction_time)
                  /\ session' = next_song(recorded)
                  /\ PrepareNextQuestion(session', shown, frame)
    /\ UNCHANGED <<round_state, self_reaction_time, space_bound, music_busy,
                   threads, timers>>
    /\ UNCHANGED <<now, songs, ret>>
    /\ UNCHANGED srsVars

\* playback(), lines 258-259: music.load and music.play
PlaybackStarts(t) ==
    /\ threads[t] = "load"
    /\ threads' = [threads EXCEPT ![t] = "loop"]
    /\ music_busy' = TRUE
    /\ UNCHANGED <<frame, session, current_song, round_state,
                   self_reaction_time, gridded, space_bound, timers, messages,
                   faults>>
    /\ UNCHANGED <<spaced_repetition, dbVars, srsVars>>

\* playback(), line 260: get_busy() returns False and the loop is left
PlaybackLoopEnds(t) ==
    /\ threads[t] = "loop"
    /\ ~music_busy
    /\ threads' = [threads EXCEPT ![t] = "finally"]
    /\ UNCHANGED <<frame, session, current_song, round_state,
                   self_reaction_time, gridded, space_bound, music_busy, timers,
                   messages, faults>>
    /\ UNCHANGED <<spaced_repetition, dbVars, srsVars>>

\* playback(), line 267: music.stop() in the finally block; the thread ends
PlaybackStops(t) ==
    /\ threads[t] = "finally"
    /\ threads' = SubSeq(threads, 1, t - 1) \o SubSeq(threads, t + 1, Len(threads))
    /\ music_busy' = FALSE
    /\ UNCHANGED <<frame, session, current_song, round_state,
                   self_reaction_time, gridded, space_bound, timers, messages,
                   faults>>
    /\ UNCHANGED <<spaced_repetition, dbVars, srsVars>>

\* the snippet reaches its end, or a fadeout completes
MusicEnds ==
    /\ music_busy
    /\ music_busy' = FALSE
    /\ UNCHANGED <<frame, session, current_song, round_state,
                   self_reaction_time, gridded, space_bound, threads, timers,
                   messages, faults>>
    /\ UNCHANGED <<spaced_repetition, dbVars, srsVars>>

(***************************************************************************)
(* The application: an empty library, the main menu raised.  What the      *)
(* model leaves out: the clock stands still while quizzes are played (Tick *)
(* belongs to the data layer's machine, and the clock the two layers read  *)
(* is one, without the skew between datetime('now') in UTC and the local   *)
(* date.today()); the elapsed time of a key press is drawn from Latencies  *)
(* instead of being measured from start_time; a pygame.error in the        *)
(* playback thread and a read of the tables that raises are not taken.     *)
(***************************************************************************)
Init ==
    /\ DbIdle
    /\ SrsIdle
    /\ ViewIdle

Next ==
    \/ AddSong
    \/ \E mode \in {"Standard", "Challenge"} : StartNewQuiz(mode)
    \/ QuitSession
    \/ \E file \in {"ok", "missing", "short"} : PlaySongAndStartRound(file)
    \/ CheckMusicStatus
    \/ \E elapsed \in Latencies : HandleSpacebarPress(elapsed)
    \/ ShowAnswerRevealState
    \/ \E was_correct, log_fails, srs_fails \in BOOLEAN :
          /\ Len(play_history) < MaxRounds
          /\ HandleUserResponse(was_correct, log_fails, srs_fails)
    \/ \E t \in 1..Len(threads) : PlaybackStarts(t)
    \/ \E t \in 1..Len(threads) : PlaybackLoopEnds(t)
    \/ \E t \in 1..Len(threads) : PlaybackStops(t)
    \/ MusicEnds

Spec == Init /\ [][Next]_vars

(***************************************************************************)
(* Properties of the update rule.                                          *)
(***************************************************************************)

\* C5: from the default state (interval 1, ease 2.5), after any sequence of
\* outcomes with any latency, the state kept by the live rule and the state
\* kept by the replay both have ease_factor >= 1.3 and interval >= 1.
C5_EaseAndIntervalFloors ==
    /\ FloatLeq(FloatLit(13), srs_data.ease)
    /\ srs_data.interval >= 1
    /\ FloatLeq(FloatLit(13), srs_state.ease)
    /\ srs_state.interval >= 1

\* An incorrect outcome with the timeout sentinel applied to a state whose
\* ease is already at the floor, after which it is still at the floor.
C5_Witness ==
    /\ call.applied
    /\ ~call.was_correct
    /\ call.reaction_time = TimeoutSentinel
    /\ call.srs.ease = FloatLit(13)
    /\ call.state.ease = FloatLit(13)
    /\ srs_data.ease = FloatLit(13)
    /\ srs_state.ease = FloatLit(13)

\* C6: a correct outcome on a state with interval 1 yields interval 4 and
\* leaves the ease factor as it was, whatever the latency.
C6_FirstCorrectIsFour ==
    (call.applied /\ call.was_correct /\ call.srs.interval = 1)
        => /\ srs_data.interval = 4
           /\ srs_data.ease = call.srs.ease

\* A correct outcome on interval 1 with a latency that would earn the bonus.
C6_Witness ==
    /\ call.applied
    /\ call.was_correct
    /\ call.srs.interval = 1
    /\ 0 < call.reaction_time
    /\ call.reaction_time < 300
    /\ srs_data.interval = 4

C8_WrongResetsAndClamps ==
    (call.applied /\ ~call.was_correct)
        => LET lowered == FloatSub(call.srs.ease, FloatLit(2))
           IN /\ srs_data.interval = 1
              /\ srs_data.ease =
                    IF FloatLess(lowered, FloatLit(13)) THEN FloatLit(13) ELSE lowered
              /\ \A rt \in ReactionTimes :
                    LiveRule(call.srs, FALSE, rt) = srs_data

\* An incorrect outcome with the timeout sentinel on a state whose interval is
\* above 1 and whose ease is below 1.3.
C8_Witness ==
    /\ call.applied
    /\ ~call.was_correct
    /\ call.reaction_time = TimeoutSentinel
    /\ call.srs.interval > 1
    /\ FloatLess(call.srs.ease, FloatLit(13))
    /\ srs_data.interval = 1
    /\ srs_data.ease = FloatLit(13)

(***************************************************************************)
(* The mastery series against a direct definition: each item's events up   *)
(* to a date, replayed on their own from the default state.                *)
(***************************************************************************)
\* the logged events of one item dated on or before `report_date`, in
\* ascending timestamp order
EventsOf(song_id, report_date) ==
    LET Selected(row) == /\ row.song_id = song_id
                         /\ DateOf(row.play_timestamp) <= report_date
    IN SelectSeq(OrderByTimestamp(play_history), Selected)

RECURSIVE ReplayEvents(_, _)
ReplayEvents(events, state) ==
    IF events = <<>> THEN state
    ELSE ReplayEvents(Tail(events),
                      ReplayRule(state, Head(events).was_correct,
                                 Head(events).reaction_time))

ExpectedMastered(report_date) ==
    Cardinality({song_id \in songs :
        ReplayEvents(EventsOf(song_id, report_date), DefaultState).interval
            >= MasteredInterval})

Position == session.current_question_index

Shown(title) == \E i \in 1..Len(messages) : messages[i] = title

\* C1: a submit whose review-log append fails leaves position and score at
\* their values before the submit and shows the failure.
C1_LogFailureBlocksAdvance ==
    [][\A was_correct, srs_fails \in BOOLEAN :
          HandleUserResponse(was_correct, TRUE, srs_fails) =>
              /\ Position' = Position
              /\ session'.score = session.score
              /\ Shown("Database Error")']_vars

\* C2: a submit whose scheduling-state update fails, after a correct or an
\* incorrect answer, leaves position and score at their values before the
\* submit and shows the failure.
C2_SrsFailureBlocksAdvanceAndScore ==
    [][\A was_correct, log_fails \in BOOLEAN :
          HandleUserResponse(was_correct, log_fails, TRUE) =>
              /\ Position' = Position
              /\ session'.score = session.score
              /\ Shown("SRS Error")']_vars

\* C3: whenever the position of a session advances, that step has appended
\* the round's event to the review log and has stored the round's new
\* scheduling state; quitting advances nothing.
C3_BothWritesOrNoAdvance ==
    [][(/\ session # NoSession
        /\ session' # NoSession
        /\ session'.song_ids = session.song_ids
        /\ Position' = Position + 1) =>
           /\ Len(play_history') = Len(play_history) + 1
           /\ play_history'[Len(play_history')].song_id = current_song
           /\ spaced_repetition' =
                  update_srs_data_for_song(
                      current_song,
                      play_history'[Len(play_history')].was_correct,
                      self_reaction_time)]_vars

\* C4: a key press or a poll that finds the round in `playing` (the poll
\* also finding the music over) moves it to `answering` and sets the latency,
\* the elapsed time for the key press and -1 for the poll; found in any other
\* state they change neither; and nothing but the start of a round or a quit
\* changes the state or the latency of a round that is in `answering`.
C4_FirstTriggerWins ==
    [][/\ \A elapsed \in Latencies :
             HandleSpacebarPress(elapsed) =>
                 IF round_state = "playing"
                 THEN /\ round_state' = "answering"
                      /\ self_reaction_time' = elapsed
                 ELSE UNCHANGED <<round_state, self_reaction_time>>
       /\ CheckMusicStatus =>
             IF round_state = "playing" /\ ~music_busy
             THEN /\ round_state' = "answering"
                  /\ self_reaction_time' = TimeoutSentinel
             ELSE UNCHANGED <<round_state, self_reaction_time>>
       /\ round_state = "answering" =>
             \/ UNCHANGED <<round_state, self_reaction_time>>
             \/ PlaySongAndStartRound("ok")
             \/ QuitSession]_vars

\* a round revealed by a key press whose pending poll has since run: only
\* the reveal timer is left
C4_Witness ==
    /\ round_state = "answering"
    /\ self_reaction_time \in Latencies
    /\ timers = <<"show_answer_reveal_state">>
    /\ ~music_busy

(***************************************************************************)
(* data/database_manager.py: get_problem_songs.  The query never reads     *)
(* reaction_time_seconds.  SQL leaves the order of rows that tie on the    *)
(* ORDER BY key open: ROW_NUMBER() may number plays of one timestamp in    *)
(* scan (rowid) order or against it, and the final ORDER BY may return     *)
(* songs of one (loss_streak, success_rate) in any order.                  *)
(***************************************************************************)
MaxLimit == 2           \* largest `limit` argument of get_problem_songs
MaxMinAttempts == 2     \* largest `min_attempts` argument

\* the rows of one song, in rowid order
PlaysOf(song_id) ==
    LET OfSong(row) == row.song_id = song_id
    IN SelectSeq(play_history, OfSong)

\* ORDER BY play_timestamp DESC, one more row of the scan put in its place:
\* behind the rows of a later timestamp and, if ties keep the scan order,
\* behind those of its own
RECURSIVE InsertRanked(_, _, _)
InsertRanked(ranked, row, ties_in_scan_order) ==
    IF ranked = <<>> THEN <<row>>
    ELSE IF \/ Head(ranked).play_timestamp > row.play_timestamp
            \/ /\ Head(ranked).play_timestamp = row.play_timestamp
               /\ ties_in_scan_order
         THEN <<Head(ranked)>> \o InsertRanked(Tail(ranked), row, ties_in_scan_order)
         ELSE <<row>> \o ranked

\* RankedPlays of one partition: the plays of a song, rn = 1 first
RECURSIVE RankedPlays(_, _)
RankedPlays(plays, ties_in_scan_order) ==
    IF plays = <<>> THEN <<>>
    ELSE InsertRanked(RankedPlays(Front(plays), ties_in_scan_order),
                      Last(plays), ties_in_scan_order)

\* SUM(was_correct)
RECURSIVE SumCorrect(_)
SumCorrect(plays) ==
    IF plays = <<>> THEN 0
    ELSE (IF Head(plays).was_correct THEN 1 ELSE 0) + SumCorrect(Tail(plays))

\* MIN(rn) over the rows with was_correct = 1
MinCorrectRn(ranked) ==
    CHOOSE rn \in 1..Len(ranked) :
        /\ ranked[rn].was_correct
        /\ \A earlier \in 1..(rn - 1) : ~ranked[earlier].was_correct

\* SongLossStreaks: part 1 for a song with a correct play, part 2 for one
\* without; a song without plays has no row
SongLossStreak(song_id, ties_in_scan_order) ==
    LET plays == PlaysOf(song_id)
    IN IF SumCorrect(plays) = 0 THEN Len(plays)
       ELSE MinCorrectRn(RankedPlays(plays, ties_in_scan_order)) - 1

RECURSIVE Gcd(_, _)
Gcd(a, b) == IF b = 0 THEN a ELSE Gcd(b, a % b)

\* SUM(was_correct) * 1.0 / COUNT(history_id): the quotient, kept as the
\* fraction in lowest terms (the division is correctly rounded, so equal
\* quotients are equal floats and the order of floats is that of quotients)
SuccessRate(correct, attempts) ==
    [num |-> correct \div Gcd(correct, attempts),
     den |-> attempts \div Gcd(correct, attempts)]

RateLess(a, b) == a.num * b.den < b.num * a.den

\* Variant: HAVING COUNT(ph.history_id) > ?
EligibleStrict(attempts, min_attempts) == attempts > min_attempts

\* HAVING COUNT(ph.history_id) >= ?
Eligible(attempts, min_attempts) == attempts >= min_attempts

\* one row of the grouped join: play_history JOIN songs JOIN SongLossStreaks
ProblemSongRow(song_id, ties_in_scan_order) ==
    [song_id |-> song_id,
     loss_streak |-> SongLossStreak(song_id, ties_in_scan_order),
     success_rate |-> SuccessRate(SumCorrect(PlaysOf(song_id)),
                                  Len(PlaysOf(song_id))),
     attempts |-> Len(PlaysOf(song_id))]

\* the songs of the grouped join that pass HAVING
ProblemSongIds(min_attempts) ==
    {song_id \in songs :
        /\ PlaysOf(song_id) # <<>>
        /\ Eligible(Len(PlaysOf(song_id)), min_attempts)}

\* ORDER BY sls.loss_streak DESC, success_rate ASC: a comes before b
RanksBefore(a, b) ==
    \/ a.loss_streak > b.loss_streak
    \/ /\ a.loss_streak = b.loss_streak
       /\ RateLess(a.success_rate, b.success_rate)

\* LIMIT ? (of a limit that is not negative)
Limit(rows, limit) == SubSeq(rows, 1, Min(limit, Len(rows)))

\* every list the query can return
get_problem_songs(limit, min_attempts, ties_in_scan_order) ==
    {Limit([i \in 1..Len(order) |->
               ProblemSongRow(order[i], ties_in_scan_order)], limit) :
        order \in {o \in Orderings(ProblemSongIds(min_attempts)) :
                      \A i, j \in 1..Len(o) :
                          i < j => ~RanksBefore(
                                       ProblemSongRow(o[j], ties_in_scan_order),
                                       ProblemSongRow(o[i], ties_in_scan_order))}}

\* DatabaseManager.get_problem_songs(limit, min_attempts), called by the
\* dashboard and the learning lab
GetProblemSongs ==
    \E limit \in 0..MaxLimit, min_attempts \in 1..MaxMinAttempts :
        \E ties_in_scan_order \in BOOLEAN :
            \E value \in get_problem_songs(limit, min_attempts, ties_in_scan_order) :
                /\ ret' = [op |-> "get_problem_songs", limit |-> limit,
                           min_attempts |-> min_attempts,
                           loss_streaks |->
                               [song_id \in {id \in songs : PlaysOf(id) # <<>>} |->
                                   SongLossStreak(song_id, ties_in_scan_order)],
                           value |-> value]
                /\ UNCHANGED <<now, songs, play_history, spaced_repetition>>
                /\ UNCHANGED srsVars
                /\ UNCHANGED viewVars

NextRank == AddSong \/ RecordPlayHistory \/ Tick \/ GetProblemSongs

SpecRank == InitDb /\ [][NextRank]_vars

(***************************************************************************)
(* The ranker against the event log.  The clock never runs backwards, so   *)
(* the rows of a song in rowid order are its events in the order they      *)
(* happened, and an order by timestamp that keeps that order among ties.   *)
(***************************************************************************)
RECURSIVE TrailingIncorrect(_)
TrailingIncorrect(events) ==
    IF events = <<>> \/ Last(events).was_correct THEN 0
    ELSE 1 + TrailingIncorrect(Front(events))

CorrectCount(song_id) ==
    Cardinality({i \in 1..Len(play_history) :
                    /\ play_history[i].song_id = song_id
                    /\ play_history[i].was_correct})

Attempts(song_id) ==
    Cardinality({i \in 1..Len(play_history) : play_history[i].song_id = song_id})

Ranked == ret.op = "get_problem_songs"

\* C11: every returned entry's loss_streak is the length of the trailing run
\* of incorrect outcomes of the song's events in the order they happened
\* (0 if the latest is correct, the number of attempts if none is correct),
\* and its success_rate is correct_count / attempts.
C11_LossStreakIsTrailingRun ==
    Ranked =>
        \A i \in 1..Len(ret.value) :
            LET row == ret.value[i]
            IN /\ row.loss_streak = TrailingIncorrect(PlaysOf(row.song_id))
               /\ CorrectCount(row.song_id) = 0 =>
                      row.loss_streak = Attempts(row.song_id)
               /\ row.success_rate.num * Attempts(row.song_id)
                      = CorrectCount(row.song_id) * row.success_rate.den

\* C11, the part that holds: the streak of a song never answered correctly,
\* the rate, and the streak of a song whose plays all differ in timestamp
C11_HoldsApartFromTies ==
    Ranked =>
        \A i \in 1..Len(ret.value) :
            LET row == ret.value[i]
                plays == PlaysOf(row.song_id)
            IN /\ CorrectCount(row.song_id) = 0 =>
                      row.loss_streak = Attempts(row.song_id)
               /\ row.success_rate.num * Attempts(row.song_id)
                      = CorrectCount(row.song_id) * row.success_rate.den
               /\ (\A j, k \in 1..Len(plays) :
                      j # k => plays[j].play_timestamp # plays[k].play_timestamp)
                  => row.loss_streak = TrailingIncorrect(plays)

\* the songs of the library with enough attempts
EligibleSongs == {song_id \in songs : /\ Attempts(song_id) >= 1
                                      /\ Attempts(song_id) >= ret.min_attempts}

\* the sort key of a song in the call that returned: a before b
KeyBefore(a, b) ==
    \/ ret.loss_streaks[a] > ret.loss_streaks[b]
    \/ /\ ret.loss_streaks[a] = ret.loss_streaks[b]
       /\ CorrectCount(a) * Attempts(b) < CorrectCount(b) * Attempts(a)

C12_WitnessFilter ==
    /\ Ranked
    /\ ret.min_attempts = 2
    /\ Len(ret.value) = 1
    /\ \E song_id \in songs : Attempts(song_id) = 1

\* the changes of round_state that the cycle of a round allows
RoundCycle ==
    {<<"idle", "playing">>, <<"playing", "answering">>, <<"answering", "idle">>}

\* C13: round_state changes only along idle -> playing -> answering -> idle
\* (a quit apart), an outcome is taken only while it is `answering`, and a
\* submit that succeeds leaves it `idle` unless the session is finished.
C13_RoundStateCycle ==
    [][/\ (round_state' # round_state /\ ~QuitSession) =>
              <<round_state, round_state'>> \in RoundCycle
       /\ \A was_correct, log_fails, srs_fails \in BOOLEAN :
              HandleUserResponse(was_correct, log_fails, srs_fails) =>
                  round_state = "answering"
       /\ \A was_correct \in BOOLEAN :
              HandleUserResponse(was_correct, FALSE, FALSE) =>
                  \/ round_state' = "idle"
                  \/ is_finished(session')]_vars

(***************************************************************************)
(* services/quiz_session.py as a state machine of its own: a session is    *)
(* constructed over songs of the library and its methods are called in any *)
(* order, also after the session is finished.                              *)
(***************************************************************************)
MaxResults == 3         \* results a session records before the calls stop
Modes == {"Standard", "Challenge", "Gauntlet"}

\* QuizSession(song_ids, mode): random.shuffle decides the order
NewQuizSession ==
    \E ids \in SUBSET songs, mode \in Modes :
        /\ IF ids = {}
           THEN /\ UNCHANGED session
                /\ ret' = [op |-> "QuizSession", raised |-> TRUE]
           ELSE \E song_ids \in Orderings(ids) :
                   /\ session' = QuizSession(song_ids, mode)
                   /\ ret' = [op |-> "QuizSession", raised |-> FALSE]
        /\ UNCHANGED <<now, songs, play_history, spaced_repetition>>
        /\ UNCHANGED <<frame, current_song, round_state, self_reaction_time,
                       gridded, space_bound, music_busy, threads, timers,
                       messages, faults>>
        /\ UNCHANGED srsVars

SessionUnchanged ==
    /\ UNCHANGED <<now, songs, play_history, spaced_repetition>>
    /\ UNCHANGED <<frame, current_song, round_state, self_reaction_time,
                   gridded, space_bound, music_busy, threads, timers,
                   messages, faults>>
    /\ UNCHANGED srsVars

\* session.get_current_song()
GetCurrentSong ==
    /\ session # NoSession
    /\ ret' = [op |-> "get_current_song", value |-> get_current_song(session)]
    /\ UNCHANGED session
    /\ SessionUnchanged

\* session.next_song()
NextSong ==
    /\ session # NoSession
    /\ session' = next_song(session)
    /\ ret' = [op |-> "next_song", before |-> session.current_question_index]
    /\ SessionUnchanged

\* session.record_result(was_correct, song_data), the song given or not
RecordResult ==
    \E was_correct, with_song \in BOOLEAN :
        /\ session # NoSession
        /\ session.score + Len(session.failed_songs) < MaxResults
        /\ session' = record_result(session, was_correct,
                                    IF with_song THEN get_current_song(session)
                                    ELSE NoSong)
        /\ ret' = [op |-> "record_result", was_correct |-> was_correct,
                   with_song |-> with_song, before |-> session]
        /\ SessionUnchanged

NextSession == AddSong \/ NewQuizSession \/ GetCurrentSong \/ NextSong \/ RecordResult

SpecSession == Init /\ [][NextSession]_vars

MaxSubmits == 3         \* rows of play_history that the sessions append

\* CHALLENGE_MODE_SONG_COUNT of config.ini: one song, or the fallback
ConfiguredCounts == {1, ChallengeSongCount}

\* a caller sets quiz_view.session = QuizSession(ids, "Gauntlet"), prepares
\* the first question and raises the quiz view
StartGauntlet ==
    \E ids \in SUBSET songs :
        \E song_ids \in Orderings(ids) :
            /\ frame = "MainMenuFrame"
            /\ song_ids # <<>>
            /\ session' = QuizSession(song_ids, "Gauntlet")
            /\ PrepareNextQuestion(session', <<>>, "QuizView")
            /\ UNCHANGED <<round_state, self_reaction_time, space_bound,
                           music_busy, threads, timers, faults>>
            /\ UNCHANGED <<spaced_repetition, dbVars, srsVars>>

\* what a session does once it is there; the log append succeeds, so that
\* play_history is the record of the outcomes given
Rounds ==
    \/ PlaySongAndStartRound("ok")
    \/ CheckMusicStatus
    \/ \E was_correct, srs_fails \in BOOLEAN :
          /\ Len(play_history) < MaxSubmits
          /\ HandleUserResponse(was_correct, FALSE, srs_fails)
    \/ \E t \in 1..Len(threads) : PlaybackStarts(t)
    \/ \E t \in 1..Len(threads) : PlaybackLoopEnds(t)
    \/ \E t \in 1..Len(threads) : PlaybackStops(t)
    \/ MusicEnds

NextQuiz ==
    \/ AddSong
    \/ \E mode \in Modes, song_count_config \in ConfiguredCounts :
          StartNewQuizWith(mode, song_count_config)
    \/ StartGauntlet
    \/ Rounds

\* one session after another
SpecQuiz == Init /\ [][NextQuiz]_vars

NextFirstQuiz ==
    \/ AddSong
    \/ \E mode \in Modes, song_count_config \in ConfiguredCounts :
          /\ session = NoSession
          /\ StartNewQuizWith(mode, song_count_config)
    \/ session = NoSession /\ StartGauntlet
    \/ Rounds

\* the first session of a run: every row of play_history is of that session
SpecFirstQuiz == Init /\ [][NextFirstQuiz]_vars

\* the session of the step is the session before it
SameSession ==
    /\ session # NoSession
    /\ session' # NoSession
    /\ session'.song_ids = session.song_ids
    /\ session'.mode = session.mode
    /\ session'.current_question_index >= session.current_question_index

\* the songs of the session that have a correct outcome on record
AnsweredCorrectly ==
    {song_id \in {session.song_ids[i] : i \in 1..Len(session.song_ids)} :
        \E i \in 1..Len(play_history) :
            /\ play_history[i].song_id = song_id
            /\ play_history[i].was_correct}

\* C15, step by step: the score of a session never goes down, a correct
\* outcome raises it by one and an incorrect one leaves it.
C15_ScoreSteps ==
    [][/\ SameSession => session'.score >= session.score
       /\ \A srs_fails \in BOOLEAN :
              /\ HandleUserResponse(TRUE, FALSE, srs_fails) =>
                     session'.score = session.score + 1
              /\ HandleUserResponse(FALSE, FALSE, srs_fails) =>
                     session'.score = session.score]_vars

\* the score of a finished session is the number of its songs that were
\* answered correctly
ScoreCountsCorrectItems ==
    (session # NoSession /\ is_finished(session)) =>
        session.score = Cardinality(AnsweredCorrectly)

\* C15: the score of a session never goes down, a correct outcome raises it
\* by one, an incorrect one leaves it, and when the session is finished the
\* score is the number of its songs that were answered correctly.
C15_ScoreCountsCorrect ==
    [][/\ SameSession => session'.score >= session.score
       /\ \A srs_fails \in BOOLEAN :
              /\ HandleUserResponse(TRUE, FALSE, srs_fails) =>
                     session'.score = session.score + 1
              /\ HandleUserResponse(FALSE, FALSE, srs_fails) =>
                     session'.score = session.score
       /\ ScoreCountsCorrectItems']_vars

\* the song_ids of the incorrect outcomes on record, in their order
RECURSIVE IncorrectlyAnswered(_)
IncorrectlyAnswered(rows) ==
    IF rows = <<>> THEN <<>>
    ELSE IF Head(rows).was_correct THEN IncorrectlyAnswered(Tail(rows))
         ELSE <<Head(rows).song_id>> \o IncorrectlyAnswered(Tail(rows))

\* C16: in a Gauntlet session failed_songs holds the songs answered
\* incorrectly, once for each incorrect outcome and in their order; in a
\* Standard or Challenge session it is empty.
C16_FailedSongsOfGauntlet ==
    session # NoSession =>
        IF session.mode = "Gauntlet"
        THEN session.failed_songs = IncorrectlyAnswered(play_history)
        ELSE session.failed_songs = <<>>

\* C16, the part that holds: failed_songs of a Standard or Challenge session
\* is empty
C16_OtherModesKeepNone ==
    (session # NoSession /\ session.mode # "Gauntlet") =>
        session.failed_songs = <<>>

\* the box or the exception that tells why no session was started
Reported(mode) ==
    IF mode = "Standard" THEN "No Songs Due"
    ELSE IF mode = "Challenge" THEN "Empty Library"
    ELSE "ValueError"

\* C17: a start that finds no song to ask (Standard with no song due,
\* Challenge with an empty library, any other construction over the empty
\* list) leaves no session, tells why, stays on the main menu and changes no
\* scheduling state and no row of the review log.
C17_NoSessionWithoutSongs ==
    [][\A mode \in Modes, song_count_config \in ConfiguredCounts :
          (/\ StartNewQuizWith(mode, song_count_config)
           /\ \/ mode = "Standard" /\ get_due_songs = {}
              \/ mode = "Challenge" /\ songs = {}
              \/ mode \notin {"Standard", "Challenge"}) =>
              /\ session' = NoSession
              /\ messages' = <<Reported(mode)>>
              /\ frame' = "MainMenuFrame"
              /\ UNCHANGED <<spaced_repetition, play_history, songs>>]_vars

\* a Standard start after a session whose answers left no song due
C17_Witness ==
    /\ session = NoSession
    /\ messages = <<"No Songs Due">>
    /\ songs # {}
    /\ play_history # <<>>

C18_WitnessStandard ==
    /\ session # NoSession
    /\ session.mode = "Standard"
    /\ session.current_question_index = 0
    /\ Len(session.song_ids) = 1
    /\ Cardinality(songs) = 2
    /\ get_due_songs = {session.song_ids[1]}

(***************************************************************************)
(* The store and the update service as a state machine: songs are added    *)
(* and deleted, days pass, and the service is asked to update any song id, *)
(* also one whose row is gone.                                             *)
(***************************************************************************)
MaxStoredInterval == 4  \* the service is not asked about longer intervals

\* song_library.delete_songs_by_id, from the library management frame
DeleteSongsById ==
    \E song_ids \in SUBSET songs :
        /\ song_ids # {}
        /\ frame = "MainMenuFrame"
        /\ LET Kept(row) == row.song_id \notin song_ids
           IN play_history' = SelectSeq(play_history, Kept)
        /\ spaced_repetition' =
               [id \in DOMAIN spaced_repetition \ song_ids |->
                   spaced_repetition[id]]
        /\ songs' = songs \ song_ids
        /\ ret' = [op |-> "delete_songs_by_id"]
        /\ UNCHANGED now
        /\ UNCHANGED srsVars
        /\ UNCHANGED viewVars

\* srs_service.update_srs_data_for_song(song_id, was_correct, reaction_time);
\* the UPDATE of a row that is there may raise
UpdateSrsDataForSong ==
    \E song_id \in 1..NumSongs, was_correct \in BOOLEAN :
        \E reaction_time \in ReactionTimes, fails \in BOOLEAN :
            /\ song_id \in DOMAIN spaced_repetition =>
                   spaced_repetition[song_id].interval <= MaxStoredInterval
            /\ fails => song_id \in DOMAIN spaced_repetition
            /\ spaced_repetition' =
                   IF fails THEN spaced_repetition
                   ELSE update_srs_data_for_song(song_id, was_correct,
                                                 reaction_time)
            /\ ret' = [op |-> "update_srs_data_for_song", song_id |-> song_id,
                       was_correct |-> was_correct, raised |-> fails,
                       today |-> Today, before |-> spaced_repetition]
            /\ UNCHANGED <<now, songs, play_history>>
            /\ UNCHANGED srsVars
            /\ UNCHANGED viewVars

NextStore == AddSong \/ DeleteSongsById \/ Tick \/ UpdateSrsDataForSong

SpecStore == InitDb /\ [][NextStore]_vars

Updated == ret.op = "update_srs_data_for_song"

\* C19: an update asked for a song that has no scheduling row writes
\* nothing, raises nothing and leaves the rows of all other songs as they
\* were.
C19_UpdateWithoutRowIsNoOp ==
    (Updated /\ ret.song_id \notin DOMAIN ret.before) =>
        /\ spaced_repetition = ret.before
        /\ ~ret.raised

\* an update asked for a deleted song while another song has its row
C19_Witness ==
    /\ Updated
    /\ ret.song_id \notin DOMAIN ret.before
    /\ DOMAIN ret.before # {}
    /\ ret.song_id \notin songs

\* C20: after an update that was applied the stored review date is the day
\* of the update plus the stored interval: 4 days after a first correct
\* answer, 1 day after an incorrect one; so the song is not due again on
\* the day it was answered.
C20_DueIsDayPlusInterval ==
    (Updated /\ ret.song_id \in DOMAIN ret.before /\ ~ret.raised) =>
        LET stored == spaced_repetition[ret.song_id]
            was == ret.before[ret.song_id]
        IN /\ stored.due = ret.today + stored.interval
           /\ (ret.was_correct /\ was.interval = 1) => stored.due = ret.today + 4
           /\ ~ret.was_correct => stored.due = ret.today + 1
           /\ stored.due > ret.today
           /\ Today = ret.today => ret.song_id \notin get_due_songs

\* a correct answer on a later day to a song whose interval was 4
C20_Witness ==
    /\ Updated
    /\ ret.song_id \in DOMAIN ret.before
    /\ ~ret.raised
    /\ ret.was_correct
    /\ ret.today > 0
    /\ ret.before[ret.song_id].interval = 4
    /\ spaced_repetition[ret.song_id].interval > 4

(***************************************************************************)
(* Runs of incorrect outcomes.                                             *)
(***************************************************************************)
MaxWrongRun == 8        \* longest run of incorrect outcomes that is followed

\* the state after n incorrect outcomes applied to the default state
RECURSIVE WrongRun(_)
WrongRun(n) ==
    IF n = 0 THEN DefaultSrs
    ELSE calculate_srs_for_wrong_answer(WrongRun(n - 1))

\* C21: an incorrect outcome never raises the ease factor and never leaves
\* it below 1.3, in the live state and in the replayed one; from the default
\* 2.5 the ease is above 1.3 after one to five incorrect outcomes in a row,
\* exactly 1.3 after six, and 1.3 after every further one.
C21_EaseFallsToFloor ==
    [][/\ (call'.applied /\ ~call'.was_correct) =>
              /\ FloatLeq(srs_data'.ease, srs_data.ease)
              /\ FloatLeq(MinEaseFactor, srs_data'.ease)
              /\ FloatLeq(srs_state'.ease, srs_state.ease)
              /\ FloatLeq(MinEaseFactor, srs_state'.ease)
       /\ \A n \in 0..MaxWrongRun :
              srs_data = WrongRun(n) =>
                  /\ n < 6 => FloatLess(FloatLit(13), srs_data.ease)
                  /\ n >= 6 => srs_data.ease = FloatLit(13)]_vars

\* the sixth incorrect outcome in a row from the default state: the ease was
\* still above 1.3 and is now 1.3
C21_Witness ==
    /\ call.applied
    /\ ~call.was_correct
    /\ call.srs = WrongRun(5)
    /\ srs_data = WrongRun(6)
    /\ srs_data.ease = FloatLit(13)
    /\ FloatLess(FloatLit(13), call.srs.ease)

(***************************************************************************)
(* Rounding of the update rule.                                            *)
(***************************************************************************)
\* floor(x + 1/2): nearest integer, exact ties upwards
RoundHalfUp(x) ==
    LET q == x.t \div 10
        r == x.t % 10
    IN IF r < 5 THEN q
       ELSE IF r > 5 THEN q + 1
       ELSE IF x.c < 0 THEN q ELSE q + 1

\* the interval of a correct answer with both roundings done half-up
HalfUpInterval(current_interval_days, ease_factor, reaction_time) ==
    IF current_interval_days = 1
    THEN FirstCorrectInterval
    ELSE LET base == RoundHalfUp(FloatMul(current_interval_days, ease_factor))
         IN IF SpeedBonusApplies(reaction_time)
            THEN RoundHalfUp(FloatMul(base, SpeedBonusFactor))
            ELSE base

\* C22: both roundings of a correct answer are round-half-up, in the live
\* rule and in the replay: the new interval is the half-up rounding of
\* interval * ease (and of base * 1.2), so interval 25 at ease 2.5 without
\* bonus becomes 63.
C22_RoundsHalfUp ==
    (call.applied /\ call.was_correct) =>
        /\ srs_data.interval =
               HalfUpInterval(call.srs.interval, call.srs.ease, call.reaction_time)
        /\ srs_state.interval =
               HalfUpInterval(call.state.interval, call.state.ease, call.reaction_time)
        /\ (/\ call.srs.interval = 25
            /\ call.srs.ease = FloatLit(25)
            /\ ~SpeedBonusApplies(call.reaction_time)) => srs_data.interval = 63

(***************************************************************************)
(* The ranker on two logs that hold the same events in another storage     *)
(* order.  The operators of the query, with the log as a parameter.        *)
(***************************************************************************)
PlaysIn(log, song_id) ==
    LET OfSong(row) == row.song_id = song_id
    IN SelectSeq(log, OfSong)

LossStreakIn(log, song_id, ties_in_scan_order) ==
    LET plays == PlaysIn(log, song_id)
    IN IF SumCorrect(plays) = 0 THEN Len(plays)
       ELSE MinCorrectRn(RankedPlays(plays, ties_in_scan_order)) - 1

ProblemSongRowIn(log, song_id, ties_in_scan_order) ==
    [song_id |-> song_id,
     loss_streak |-> LossStreakIn(log, song_id, ties_in_scan_order),
     success_rate |-> SuccessRate(SumCorrect(PlaysIn(log, song_id)),
                                  Len(PlaysIn(log, song_id))),
     attempts |-> Len(PlaysIn(log, song_id))]

ProblemSongsIn(log, limit, min_attempts, ties_in_scan_order) ==
    LET ids == {song_id \in songs :
                   /\ PlaysIn(log, song_id) # <<>>
                   /\ Eligible(Len(PlaysIn(log, song_id)), min_attempts)}
        Row(song_id) == ProblemSongRowIn(log, song_id, ties_in_scan_order)
    IN {Limit([i \in 1..Len(order) |-> Row(order[i])], limit) :
           order \in {o \in Orderings(ids) :
                         \A i, j \in 1..Len(o) :
                             i < j => ~RanksBefore(Row(o[j]), Row(o[i]))}}

\* the parameterised query on the stored log is the query
ProblemSongsInIsQuery ==
    \A limit \in 0..MaxLimit, min_attempts \in 1..MaxMinAttempts :
        \A ties_in_scan_order \in BOOLEAN :
            ProblemSongsIn(play_history, limit, min_attempts, ties_in_scan_order)
                = get_problem_songs(limit, min_attempts, ties_in_scan_order)

\* the logs record_play_history can have written that hold the rows of
\* play_history: the same rows, timestamps not decreasing in storage order
Reorderings ==
    {log \in {[i \in 1..Len(play_history) |-> play_history[order[i]]] :
                 order \in Orderings(1..Len(play_history))} :
        \A i, j \in 1..Len(log) :
            i < j => log[i].play_timestamp <= log[j].play_timestamp}

SongIdsOf(value) == {value[i].song_id : i \in 1..Len(value)}

PositionIn(value, song_id) == CHOOSE i \in 1..Len(value) : value[i].song_id = song_id

SameKey(a, b) ==
    /\ a.loss_streak = b.loss_streak
    /\ ~RateLess(a.success_rate, b.success_rate)
    /\ ~RateLess(b.success_rate, a.success_rate)

\* C23: for a log that differs from the stored one only in the storage order
\* of its events, the query returns the same set of songs under `limit`, and
\* two songs that tie on (loss_streak, success_rate) in both results stand
\* in the same relative order.
C23_SameRankingOnReorderedLog ==
    Ranked =>
        \A log \in Reorderings, ties_in_scan_order \in BOOLEAN :
            \A other \in ProblemSongsIn(log, ret.limit, ret.min_attempts,
                                        ties_in_scan_order) :
                /\ SongIdsOf(other) = SongIdsOf(ret.value)
                /\ \A a, b \in SongIdsOf(other) \cap SongIdsOf(ret.value) :
                       LET i == PositionIn(ret.value, a)
                           j == PositionIn(ret.value, b)
                           k == PositionIn(other, a)
                           l == PositionIn(other, b)
                       IN (/\ SameKey(ret.value[i], ret.value[j])
                           /\ SameKey(other[k], other[l]))
                          => (i < j <=> k < l)

\* C23, with every tie resolved as this build of SQLite resolves it (equal
\* timestamps: the row stored first ranks as the most recent; equal sort
\* keys: the smaller song_id first): the set under `limit` still depends on
\* the storage order of two plays of one second
C23_SameCutInThisBuild ==
    \A limit \in 0..MaxLimit, min_attempts \in 1..MaxMinAttempts :
        \A log \in Reorderings :
            \A mine \in ProblemSongsIn(play_history, NumSongs, min_attempts, TRUE),
               other \in ProblemSongsIn(log, NumSongs, min_attempts, TRUE) :
                (/\ \A i, j \in 1..Len(mine) :
                        i < j /\ SameKey(mine[i], mine[j])
                            => mine[i].song_id < mine[j].song_id
                 /\ \A i, j \in 1..Len(other) :
                        i < j /\ SameKey(other[i], other[j])
                            => other[i].song_id < other[j].song_id)
                => SongIdsOf(Limit(other, limit)) = SongIdsOf(Limit(mine, limit))

(***************************************************************************)
(* get_mastery_over_time, statement by statement.  `ret` holds the locals  *)
(* of the running call; while it runs, the clock may advance and another   *)
(* connection to the database file may append plays.  `applied` is a       *)
(* history variable: for every event of all_history, the positions in      *)
(* date_range of the report dates on which the loop applied it.            *)
(***************************************************************************)
Replaying == ret.op = "replaying"

\* Variant: the cursor is left where it is.
AdvanceCursorNever(history_idx) == history_idx

\* history_idx += 1
AdvanceCursor(history_idx) == history_idx + 1

\* lines 426-430: today, date_range, the zeroed dict
BeginReplay ==
    \E days \in 1..MaxWindow :
        /\ ~Replaying
        /\ ret' = [op |-> "replaying", at |-> "songs", days |-> days,
                   today |-> Today, dates |-> date_range(Today, days),
                   mastery_over_time |-> DictOfZeros(date_range(Today, days)),
                   all_song_ids |-> {}, all_history |-> <<>>,
                   srs_states |-> <<>>, history_idx |-> 0, k |-> 1,
                   applied |-> <<>>]
        /\ UNCHANGED <<now, songs, play_history, spaced_repetition>>
        /\ UNCHANGED srsVars
        /\ UNCHANGED viewVars

\* lines 433-435: the song ids are read; an empty library returns the zeros
ReplayReadSongs ==
    /\ Replaying
    /\ ret.at = "songs"
    /\ ret' = IF get_all_song_ids = {}
              THEN [ret EXCEPT !.op = "replayed", !.at = "returned"]
              ELSE [ret EXCEPT !.at = "history",
                               !.all_song_ids = get_all_song_ids]
    /\ UNCHANGED <<now, songs, play_history, spaced_repetition>>
    /\ UNCHANGED srsVars
    /\ UNCHANGED viewVars

\* lines 437-447: the log is read once; every song starts at the defaults
ReplayReadHistory ==
    /\ Replaying
    /\ ret.at = "history"
    /\ ret' = [ret EXCEPT !.at = "loop",
                          !.all_history = get_all_play_history,
                          !.srs_states = [song_id \in ret.all_song_ids |-> DefaultState],
                          !.applied = [i \in 1..Len(get_all_play_history) |-> <<>>]]
    /\ UNCHANGED <<now, songs, play_history, spaced_repetition>>
    /\ UNCHANGED srsVars
    /\ UNCHANGED viewVars

\* the condition of the while loop, line 450
ReplayHasDueEvent ==
    /\ ret.history_idx < Len(ret.all_history)
    /\ EventIsDue(ret.all_history[ret.history_idx + 1].date, ret.dates[ret.k])

\* lines 450-465: one turn of the while loop
ReplayEvent ==
    /\ Replaying
    /\ ret.at = "loop"
    /\ ret.k <= Len(ret.dates)
    /\ ReplayHasDueEvent
    /\ ret' = [ret EXCEPT
                 !.srs_states = ApplyEvent(@, ret.all_history[ret.history_idx + 1]),
                 !.applied[ret.history_idx + 1] = Append(@, ret.k),
                 !.history_idx = AdvanceCursor(@)]
    /\ UNCHANGED <<now, songs, play_history, spaced_repetition>>
    /\ UNCHANGED srsVars
    /\ UNCHANGED viewVars

\* lines 467-473: the while loop is left, the mastered songs of the report
\* date are counted and the for loop moves on
ReplayCount ==
    /\ Replaying
    /\ ret.at = "loop"
    /\ ret.k <= Len(ret.dates)
    /\ ~ReplayHasDueEvent
    /\ ret' = [ret EXCEPT
                 !.mastery_over_time =
                     DictSet(@, ret.dates[ret.k],
                             MasteredCount(ret.all_song_ids, ret.srs_states)),
                 !.k = @ + 1]
    /\ UNCHANGED <<now, songs, play_history, spaced_repetition>>
    /\ UNCHANGED srsVars
    /\ UNCHANGED viewVars

\* line 475
ReplayReturn ==
    /\ Replaying
    /\ ret.at = "loop"
    /\ ret.k > Len(ret.dates)
    /\ ret' = [ret EXCEPT !.op = "replayed", !.at = "returned"]
    /\ UNCHANGED <<now, songs, play_history, spaced_repetition>>
    /\ UNCHANGED srsVars
    /\ UNCHANGED viewVars

\* the INSERT of record_play_history, committed by another connection while
\* the call runs
RecordPlayHistoryMeanwhile ==
    \E song_id \in 1..NumSongs, outcome \in DbOutcomes :
        /\ Replaying
        /\ Len(play_history) < MaxHistory
        /\ play_history' = record_play_history(song_id, outcome[1], outcome[2])
        /\ UNCHANGED <<now, songs, ret, spaced_repetition>>
        /\ UNCHANGED srsVars
        /\ UNCHANGED viewVars

NextReplay ==
    \/ ~Replaying /\ AddSong
    \/ ~Replaying /\ RecordPlayHistory
    \/ RecordPlayHistoryMeanwhile
    \/ Tick
    \/ BeginReplay
    \/ ReplayReadSongs
    \/ ReplayReadHistory
    \/ ReplayEvent
    \/ ReplayCount
    \/ ReplayReturn

SpecReplay == InitDb /\ [][NextReplay]_vars

\* the call has read the log: it is in the loop or has returned from it
ReplayHasSnapshot == ret.op \in {"replaying", "replayed"} /\ ret.at \in {"loop", "returned"} /\ ret.all_song_ids # {}

\* the steps compute what the loops of get_mastery_over_time compute on the
\* values the call has read
ReplayStepsAreTheLoops ==
    (ret.op = "replayed" /\ ret.all_song_ids # {}) =>
        ret.mastery_over_time =
            Simulate(1, ret.dates, ret.all_history, 0,
                     [song_id \in ret.all_song_ids |-> DefaultState],
                     ret.all_song_ids, DictOfZeros(ret.dates))

\* C24: the replay walks the log it read once with a cursor that only moves
\* forward: no event is applied twice, the events applied are those before
\* the cursor, each on the first report date not before its own date (the
\* first day of the window for an older event), and at the return exactly
\* the events dated <= today have been applied; the log read is not changed
\* by plays appended while the call runs, and the cursor never moves back.
C24_SnapshotWalkedOnce ==
    [][/\ ReplayHasSnapshot' =>
             /\ Len(ret'.applied) = Len(ret'.all_history)
             /\ \A i \in 1..Len(ret'.all_history) :
                    /\ Len(ret'.applied[i]) <= 1
                    /\ ret'.applied[i] # <<>> <=> i <= ret'.history_idx
                    /\ ret'.applied[i] # <<>> =>
                           LET k == ret'.applied[i][1]
                           IN /\ ret'.all_history[i].date <= ret'.dates[k]
                              /\ k > 1 => ret'.all_history[i].date > ret'.dates[k - 1]
                    /\ ret'.op = "replayed" =>
                           (ret'.applied[i] # <<>>
                                <=> ret'.all_history[i].date <= ret'.today)
       /\ (ReplayHasSnapshot /\ ReplayHasSnapshot') =>
             /\ ret'.all_history = ret.all_history
             /\ ret'.history_idx >= ret.history_idx
             /\ \A i \in 1..Len(ret.all_history) :
                    ret.applied[i] # <<>> => ret'.applied[i] = ret.applied[i]]_vars

\* a returned call whose log held an event older than the window and one of
\* the report date, and to whose table a play was appended after the log
\* was read
C24_Witness ==
    /\ ret.op = "replayed"
    /\ Len(ret.all_history) = 2
    /\ Len(play_history) = 3
    /\ ret.applied = <<<<1>>, <<1>>>>
    /\ ret.all_history[1].date < ret.dates[1]
    /\ ret.all_history[2].date = ret.dates[1]

\* a returned call whose log held an event dated after the `today` the call
\* had read before: the event is left unapplied
ReplayLeavesLaterEvent ==
    /\ ret.op = "replayed"
    /\ ret.days = 2
    /\ Len(ret.all_history) = 2
    /\ ret.applied = <<<<2>>, <<>>>>
    /\ ret.all_history[2].date > ret.today

(***************************************************************************)
(* The replay helpers against the live helpers.                            *)
(***************************************************************************)
\* C25: the replay helpers return the interval and the ease of the live
\* helpers on the same interval, ease, outcome and latency: on every state
\* the update machine reaches and every latency both pairs agree, and an
\* outcome applied to a stored state and to an equal in-memory state leaves
\* them equal.
C25_ReplayHelpersAreLiveHelpers ==
    /\ \A reaction_time \in ReactionTimes :
           LET live == calculate_srs_for_correct_answer(srs_data, reaction_time)
           IN recalculate_srs_for_correct_answer(
                  srs_data.interval, srs_data.ease, reaction_time)
                  = <<live.interval, live.ease>>
    /\ LET live == calculate_srs_for_wrong_answer(srs_data)
       IN recalculate_srs_for_wrong_answer(srs_data.ease)
              = <<live.interval, live.ease>>
    /\ srs_state = [interval |-> srs_data.interval, ease |-> srs_data.ease]

\* both rules have just applied a fast correct answer to an interval above 1
\* at the minimum ease
C25_Witness ==
    /\ call.applied
    /\ call.was_correct
    /\ SpeedBonusApplies(call.reaction_time)
    /\ call.srs.interval > 1
    /\ call.state.ease = FloatLit(13)
    /\ srs_state.interval = srs_data.interval
    /\ srs_state.interval > call.state.interval

(***************************************************************************)
(* One review event and one scheduling update per round.                   *)
(***************************************************************************)
EventsIn(log, song_id) ==
    Cardinality({i \in 1..Len(log) : log[i].song_id = song_id})

\* the step moves the session past the song of the current round
AdvancesPast(song_id) ==
    /\ SameSession
    /\ Position' = Position + 1
    /\ current_song = song_id

\* C26: a round contributes exactly one review event and one scheduling
\* update: in every step the number of logged events of a song grows by one
\* if the step moves the session past that song and by nothing otherwise,
\* also when a write of the submit fails, and the stored scheduling state
\* of a song changes only in a step that moves the session past it.
C26_OneEventAndOneUpdatePerRound ==
    [][\A song_id \in songs :
          /\ EventsIn(play_history', song_id) =
                 EventsIn(play_history, song_id)
                     + (IF AdvancesPast(song_id) THEN 1 ELSE 0)
          /\ (/\ song_id \in DOMAIN spaced_repetition
              /\ spaced_repetition'[song_id] # spaced_repetition[song_id])
             => AdvancesPast(song_id)]_vars

\* C26, the part about the scheduling state alone
C26_UpdateOnlyOnAdvance ==
    [][\A song_id \in songs :
          (/\ song_id \in DOMAIN spaced_repetition
           /\ spaced_repetition'[song_id] # spaced_repetition[song_id])
          => AdvancesPast(song_id)]_vars

(***************************************************************************)
(* The poll against the playback threads.  The thread of the current round *)
(* is the last one started; it is at "load" until music.play() has been    *)
(* called.                                                                 *)
(***************************************************************************)
TimesOut ==
    /\ round_state = "playing"
    /\ round_state' = "answering"
    /\ self_reaction_time' = TimeoutSentinel

\* C27: the poll ends a round with the timeout latency only after the
\* playback of that round has begun, under every interleaving of the
\* playback thread and the poll; and the thread of an earlier round never
\* stops the music of a round that is playing.
C27_TimeoutOnlyAfterPlayback ==
    [][/\ TimesOut => (threads = <<>> \/ Last(threads) # "load")
       /\ \A t \in 1..Len(threads) :
              (PlaybackStops(t) /\ t < Len(threads)) =>
                  ~(round_state = "playing" /\ music_busy)]_vars

\* C27, the second part alone
C27_EarlierThreadLeavesRound ==
    [][\A t \in 1..Len(threads) :
          (PlaybackStops(t) /\ t < Len(threads)) =>
              ~(round_state = "playing" /\ music_busy)]_vars

(***************************************************************************)
(* The stored scheduling state against the replay of the log: Challenge    *)
(* sessions whose writes all succeed, with a key press after 1.5 s and the *)
(* two mastery queries; the clock stands still, as in Spec.                *)
(***************************************************************************)
MaxLiveRounds == 3      \* rows of play_history that the sessions append

\* Variant: CASE ... WHEN current_interval_days <= 30 THEN 'Learning'
get_mastery_distribution_above_30 ==
    [level \in {"Not Yet Learned", "Learning", "Mastered"} |->
        Cardinality({song_id \in DOMAIN spaced_repetition :
            LET current_interval_days == spaced_repetition[song_id].interval
            IN IF current_interval_days < 7 THEN level = "Not Yet Learned"
               ELSE IF current_interval_days >= 7 /\ current_interval_days <= 30
                    THEN level = "Learning"
                    ELSE level = "Mastered"})]

\* get_mastery_distribution: the three counts of the CASE expression
get_mastery_distribution ==
    [level \in {"Not Yet Learned", "Learning", "Mastered"} |->
        Cardinality({song_id \in DOMAIN spaced_repetition :
            LET current_interval_days == spaced_repetition[song_id].interval
            IN IF current_interval_days < 7 THEN level = "Not Yet Learned"
               ELSE IF current_interval_days >= 7 /\ current_interval_days < 30
                    THEN level = "Learning"
                    ELSE level = "Mastered"})]

\* the two mastery queries, read one after the other: the series and the
\* distribution
GetMastery ==
    \E days \in 1..MaxWindow :
        /\ frame = "MainMenuFrame"
        /\ ret' = [op |-> "get_mastery", days |-> days, today |-> Today,
                   value |-> get_mastery_over_time(days),
                   distribution |-> get_mastery_distribution]
        /\ UNCHANGED <<now, songs, play_history, spaced_repetition>>
        /\ UNCHANGED srsVars
        /\ UNCHANGED viewVars

NextLive ==
    \/ AddSong
    \/ \E song_count_config \in ConfiguredCounts :
          StartNewQuizWith("Challenge", song_count_config)
    \/ PlaySongAndStartRound("ok")
    \/ CheckMusicStatus
    \/ HandleSpacebarPress(150)
    \/ ShowAnswerRevealState
    \/ \E was_correct \in BOOLEAN :
          /\ Len(play_history) < MaxLiveRounds
          /\ HandleUserResponse(was_correct, FALSE, FALSE)
    \/ \E t \in 1..Len(threads) : PlaybackStarts(t)
    \/ \E t \in 1..Len(threads) : PlaybackLoopEnds(t)
    \/ \E t \in 1..Len(threads) : PlaybackStops(t)
    \/ MusicEnds
    \/ GetMastery

SpecLive == Init /\ [][NextLive]_vars

\* the events of a song in the order of the replay
LoggedEvents(song_id) ==
    LET OfSong(event) == event.song_id = song_id
    IN SelectSeq(get_all_play_history, OfSong)

Submits == Len(play_history') = Len(play_history) + 1

\* the step starts a session
StartsSession == session' # NoSession /\ session' # session /\ ~SameSession

MaxRun == 7             \* outcomes applied to the item

\* the latencies of a run: the timeout sentinel and a fast answer
RunLatencies == {TimeoutSentinel, 150}

ApplyLoggedOutcome ==
    \E was_correct \in BOOLEAN, reaction_time \in RunLatencies :
        /\ Len(play_history) < MaxRun
        /\ play_history' = record_play_history(1, was_correct, reaction_time)
        /\ srs_data' = LiveRule(srs_data, was_correct, reaction_time)
        /\ srs_state' = ReplayRule(srs_state, was_correct, reaction_time)
        /\ call' = [was_correct |-> was_correct, reaction_time |-> reaction_time,
                    applied |-> TRUE, srs |-> srs_data, state |-> srs_state]
        /\ UNCHANGED <<now, songs, ret, spaced_repetition>>
        /\ UNCHANGED viewVars

NextSrsLog == ApplyLoggedOutcome

SpecSrsLog == InitDefault /\ [][NextSrsLog]_vars

\* the last three outcomes applied were all correct
LastThreeCorrect ==
    /\ Len(play_history) >= 3
    /\ \A i \in (Len(play_history) - 2)..Len(play_history) :
           play_history[i].was_correct

\* C30: from the defaults the ease is never above 2.5; the interval is 30 or
\* more only if the three outcomes applied last were all correct; an item
\* whose log ends in an incorrect outcome (a loss streak above 0) is not
\* counted as mastered; and a correct outcome leaves an interval strictly
\* above the one it was applied to.  All of it for the stored state and for
\* the replayed one.
C30_MasteryNeedsThreeCorrect ==
    /\ FloatLeq(srs_data.ease, DefaultEase)
    /\ FloatLeq(srs_state.ease, DefaultEase)
    /\ srs_data.interval >= MasteredInterval => LastThreeCorrect
    /\ srs_state.interval >= MasteredInterval => LastThreeCorrect
    /\ TrailingIncorrect(play_history) > 0 =>
           /\ srs_data.interval < MasteredInterval
           /\ MasteredCount({1}, [song_id \in {1} |-> srs_state]) = 0
    /\ (call.applied /\ call.was_correct) =>
           /\ srs_data.interval > call.srs.interval
           /\ srs_state.interval > call.state.interval

\* an item whose ease an incorrect outcome has lowered: the three correct
\* outcomes after it left the interval below 30, the fourth has taken it
\* there
C30_Witness ==
    /\ Len(play_history) = 5
    /\ ~play_history[1].was_correct
    /\ \A i \in 2..5 : play_history[i].was_correct
    /\ FloatLess(srs_data.ease, DefaultEase)
    /\ srs_data.interval >= MasteredInterval
    /\ call.srs.interval < MasteredInterval
    /\ srs_state.interval = srs_data.interval

====
